---- MODULE Spec2Model ----
(***************************************************************************)
(* A model of drexel-sentinel: the Discord adapter (src/bot.py), the       *)
(* supervisor / specialist orchestration with its process-wide current     *)
(* thread id (src/engine/agent.py) and the tool functions                  *)
(* (src/engine/tools.py).                                                  *)
(*                                                                         *)
(* Python strings are modelled as sequences of one-character strings, so   *)
(* that formatting, concatenation, upper(), strip() and strptime() are     *)
(* computed character by character.  Fixed message fragments of the        *)
(* tools' returned strings are kept as single multi-character pieces.      *)
(***************************************************************************)
EXTENDS Integers, Sequences, FiniteSets, TLC

VARIABLES
    _current_thread_id, \* agent.py: the module global read by the wrapper tools
    memory,             \* agent.py: the one MemorySaver shared by all four agents
    req,                \* the ask_sentinel calls / on_message handlers
    running,            \* bot.py: the handler that holds the event loop thread
    now,                \* bot.py: the wall clock read by datetime.now()
    sub_in,             \* inputs of the sub-thread id computation
    sub_out,            \* its results
    calendar,           \* tools.py: the events held by the calendar service
    next_id,            \* the calendar service's next event id
    call                \* the last tool call: arguments, request sent, result

agentVars == <<_current_thread_id, memory, req, running, now>>
subVars   == <<sub_in, sub_out>>
toolVars  == <<calendar, next_id, call>>
vars      == <<_current_thread_id, memory, req, running, now,
               sub_in, sub_out, calendar, next_id, call>>

----------------------------------------------------------------------------
(* Bounds of the model *)

NumRequests  == 2     \* ask_sentinel calls / inbound messages
MaxToolCalls == 2     \* specialist checkpoints written, plus wrapper calls in progress
MaxBucket    == 10    \* largest half-hour bucket the clock reaches
MaxEvents    == 2     \* events the calendar service accepts in all

(* Program constants *)

BucketSeconds == 1800

----------------------------------------------------------------------------
(* Python str as a sequence of characters *)

None == <<"None">>          \* Python's None: no character sequence equals it

Digits == <<"0", "1", "2", "3", "4", "5", "6", "7", "8", "9">>
LowerLetters ==
    <<"a", "b", "c", "d", "e", "f", "g", "h", "i", "j", "k", "l", "m",
      "n", "o", "p", "q", "r", "s", "t", "u", "v", "w", "x", "y", "z">>
UpperLetters ==
    <<"A", "B", "C", "D", "E", "F", "G", "H", "I", "J", "K", "L", "M",
      "N", "O", "P", "Q", "R", "S", "T", "U", "V", "W", "X", "Y", "Z">>
Whitespace == {" ", "\t", "\n"}

DigitChars == {Digits[i] : i \in 1..10}
DigitValue == [c \in DigitChars |-> (CHOOSE i \in 1..10 : Digits[i] = c) - 1]

IsDigit(c) == c \in DigitChars
DigitVal(c) == DigitValue[c]

ToUpper == [c \in {LowerLetters[i] : i \in 1..26} |->
               UpperLetters[CHOOSE i \in 1..26 : LowerLetters[i] = c]]
ToLower == [c \in {UpperLetters[i] : i \in 1..26} |->
               LowerLetters[CHOOSE i \in 1..26 : UpperLetters[i] = c]]

UpperChar(c) == IF c \in DOMAIN ToUpper THEN ToUpper[c] ELSE c
LowerChar(c) == IF c \in DOMAIN ToLower THEN ToLower[c] ELSE c

Upper(s) == [i \in 1..Len(s) |-> UpperChar(s[i])]
Lower(s) == [i \in 1..Len(s) |-> LowerChar(s[i])]

(* str.strip(): leading and trailing whitespace removed *)
Strip(s) ==
    LET keep == {i \in 1..Len(s) : s[i] \notin Whitespace}
    IN  IF keep = {} THEN <<>>
        ELSE LET lo == CHOOSE i \in keep : \A j \in keep : i <= j
                 hi == CHOOSE i \in keep : \A j \in keep : j <= i
             IN  SubSeq(s, lo, hi)

(* `kw in s` *)
Contains(s, kw) ==
    \E i \in 0..(Len(s) - Len(kw)) : SubSeq(s, i + 1, i + Len(kw)) = kw

(* str(int) / f"{n}" for an int: decimal digits, "-" for a negative number *)
RECURSIVE NatToStr(_)
NatToStr(n) ==
    IF n < 10 THEN <<Digits[n + 1]>>
    ELSE NatToStr(n \div 10) \o <<Digits[(n % 10) + 1]>>

IntToStr(n) == IF n < 0 THEN <<"-">> \o NatToStr(-n) ELSE NatToStr(n)

(* Python truthiness of an Optional[str] *)
Truthy(v) == v # None /\ v # <<>>

----------------------------------------------------------------------------
(* src/bot.py: the thread id of a message *)

(* time_bucket = datetime.now().timestamp() // 1800 *)
TimeBucket(ts) == ts \div BucketSeconds

(* a plausible slip: the two numbers joined without their separator *)
ThreadIdUnseparated(author_id, ts) ==
    <<"u", "s", "e", "r", "_">> \o IntToStr(author_id) \o IntToStr(TimeBucket(ts))

(* thread_id = f"user_{message.author.id}_{int(time_bucket)}" *)
ThreadIdOf(author_id, ts) ==
    <<"u", "s", "e", "r", "_">> \o IntToStr(author_id) \o <<"_">>
        \o IntToStr(TimeBucket(ts))

----------------------------------------------------------------------------
(* src/engine/agent.py: wrapper tools and their sub-thread ids *)

Specialists == {"calendar", "research", "advisor"}

SpecialistName(s) ==
    CASE s = "calendar" -> <<"c", "a", "l", "e", "n", "d", "a", "r">>
      [] s = "research" -> <<"r", "e", "s", "e", "a", "r", "c", "h">>
      [] s = "advisor"  -> <<"a", "d", "v", "i", "s", "o", "r">>

(* a plausible slip: the specialist runs on the parent's own thread id *)
SubThreadIdShared(current, s) ==
    IF Truthy(current) THEN current ELSE SpecialistName(s)

(* sub_thread_id = f"{_current_thread_id}_calendar" if _current_thread_id else "calendar" *)
SubThreadId(current, s) ==
    IF Truthy(current) THEN current \o <<"_">> \o SpecialistName(s)
    ELSE SpecialistName(s)

(* a plausible slip: the assignment without `global` binds a local, the
   module global keeps its value *)
set_thread_id_local(thread_id) == _current_thread_id

(* set_thread_id: the value of _current_thread_id after the call *)
set_thread_id(thread_id) == thread_id

----------------------------------------------------------------------------
(* The ask_sentinel calls.  A request is one call of ask_sentinel; under the
   adapter it is the on_message handler that makes the call. *)

Requests == 1..NumRequests
Idle == 0

NewRequest ==
    [pc |-> "new", author |-> 0, ts |-> 0,
     thread_id |-> None, tool |-> "none", sub |-> None]

(* a checkpoint written to the shared MemorySaver: the thread key, and the
   agent whose message history it holds *)
Checkpoint(key, agent) == [key |-> key, agent |-> agent]

AgentInit ==
    /\ _current_thread_id = None
    /\ memory = {}
    /\ req = [r \in Requests |-> NewRequest]
    /\ running = Idle
    /\ now = 0

SubIdle == sub_in = None /\ sub_out = None
NoCall == [tool |-> "none"]
ToolIdle == calendar = {} /\ next_id = 1 /\ call = NoCall

(* the state once the modules are imported *)
Init == AgentInit /\ SubIdle /\ ToolIdle

(* ask_sentinel, line 159: set_thread_id(thread_id) *)
AskSetThreadId(r) ==
    /\ req[r].pc = "ask"
    /\ _current_thread_id' = set_thread_id(req[r].thread_id)
    /\ req' = [req EXCEPT ![r].pc = "supervisor"]
    /\ UNCHANGED memory

(* the specialist checkpoints in the store, plus the wrapper calls in progress *)
ToolCalls ==
    Cardinality({c \in memory : c.agent # "supervisor"})
        + Cardinality({r \in Requests : req[r].pc \in {"wrapper", "specialist"}})

(* ask_sentinel, line 160: supervisor_agent.invoke under the request's own
   thread id; the model chooses to call the wrapper tool of specialist s *)
SupervisorDelegates(r, s) ==
    /\ req[r].pc = "supervisor"
    /\ ToolCalls < MaxToolCalls
    /\ memory' = memory \cup {Checkpoint(req[r].thread_id, "supervisor")}
    /\ req' = [req EXCEPT ![r].pc = "wrapper", ![r].tool = s, ![r].sub = None]
    /\ UNCHANGED _current_thread_id

(* calendar_assistant / research_assistant / advisor_assistant: the wrapper
   reads the module global and derives its sub-thread id *)
WrapperTool(r) ==
    /\ req[r].pc = "wrapper"
    /\ req' = [req EXCEPT ![r].pc = "specialist",
                          ![r].sub = SubThreadId(_current_thread_id, req[r].tool)]
    /\ UNCHANGED <<_current_thread_id, memory>>

(* the wrapper invokes its specialist agent under the sub-thread id; the
   specialist's history is checkpointed to the shared store under that key *)
SpecialistInvoke(r) ==
    /\ req[r].pc = "specialist"
    /\ memory' = memory \cup {Checkpoint(req[r].sub, req[r].tool)}
    /\ req' = [req EXCEPT ![r].pc = "supervisor", ![r].tool = "none", ![r].sub = None]
    /\ UNCHANGED _current_thread_id

(* ask_sentinel, lines 160-161: the supervisor gives its final answer and
   ask_sentinel returns it *)
SupervisorAnswers(r) ==
    /\ req[r].pc = "supervisor"
    /\ memory' = memory \cup {Checkpoint(req[r].thread_id, "supervisor")}
    /\ req' = [req EXCEPT ![r].pc = "returned"]
    /\ UNCHANGED _current_thread_id

InAskSentinel(r) == req[r].pc \in {"ask", "supervisor", "wrapper", "specialist"}

----------------------------------------------------------------------------
(* ask_sentinel called from concurrent threads *)

CallerThreadIds == {ThreadIdOf(1, 0), ThreadIdOf(11, 0), ThreadIdOf(1, BucketSeconds)}

(* ask_sentinel(user_input, thread_id), line 158 *)
CallAskSentinel(r, thread_id) ==
    /\ req[r].pc = "new"
    /\ req' = [req EXCEPT ![r].pc = "ask", ![r].thread_id = thread_id]
    /\ UNCHANGED <<_current_thread_id, memory>>

(* a step made by a caller's own thread: no event loop is involved *)
OnThread(step) == step /\ UNCHANGED <<running, now, subVars, toolVars>>

ThreadsNext ==
    \E r \in Requests :
        \/ \E t \in CallerThreadIds : OnThread(CallAskSentinel(r, t))
        \/ OnThread(AskSetThreadId(r))
        \/ \E s \in Specialists : OnThread(SupervisorDelegates(r, s))
        \/ OnThread(WrapperTool(r))
        \/ OnThread(SpecialistInvoke(r))
        \/ OnThread(SupervisorAnswers(r))

SpecThreads == Init /\ [][ThreadsNext]_vars

----------------------------------------------------------------------------
(* src/bot.py: SentinelBot.on_message on the asyncio event loop.  A handler
   runs on the loop thread from one await to the next; `running` is the
   handler that holds the loop. *)

AuthorIds == {1, 11}
Timestamps ==
    {0, BucketSeconds - 1, BucketSeconds, MaxBucket * BucketSeconds}

(* a plausible slip: the dispatch awaited (run off the loop thread), so the
   loop is released while ask_sentinel is in progress *)
AwaitPointsDispatchAwaited == {"typing", "supervisor", "done"}

(* the places where on_message gives the loop back: entering
   `async with message.channel.typing()` (line 29), `await message.reply`
   (line 34) and its return.  The call of ask_sentinel (line 32) is not one. *)
AwaitPoints == {"typing", "done"}

LoopAfter(m, pc) == IF pc \in AwaitPoints THEN Idle ELSE m

(* lines 22-29: up to the first await *)
OnMessage(m, is_self, author, addressed, ts) ==
    /\ running = Idle
    /\ req[m].pc = "new"
    /\ ts >= now
    /\ now' = ts
    /\ req' = [req EXCEPT ![m] =
          IF is_self
          THEN [@ EXCEPT !.pc = "done"]
          ELSE [@ EXCEPT !.pc = IF addressed THEN "typing" ELSE "done",
                         !.author = author, !.ts = ts,
                         !.thread_id = ThreadIdOf(author, ts)]]
    /\ running' = LoopAfter(m, req'[m].pc)
    /\ UNCHANGED <<_current_thread_id, memory, subVars, toolVars>>

(* the loop resumes a suspended handler; out of typing() the handler goes on
   to lines 30-32 and enters ask_sentinel *)
Resume(m) ==
    /\ running = Idle
    /\ req[m].pc \notin {"new", "done"}
    /\ running' = m
    /\ req' = [req EXCEPT ![m].pc = IF @ = "typing" THEN "ask" ELSE @]
    /\ UNCHANGED <<_current_thread_id, memory, now, subVars, toolVars>>

(* a step of ask_sentinel made by the handler that holds the loop *)
OnLoop(m, step) ==
    /\ running = m
    /\ step
    /\ running' = LoopAfter(m, req'[m].pc)
    /\ UNCHANGED <<now, subVars, toolVars>>

(* line 34: await message.reply(response); the handler ends *)
Reply(m) ==
    /\ running = m
    /\ req[m].pc = "returned"
    /\ req' = [req EXCEPT ![m].pc = "done"]
    /\ running' = LoopAfter(m, req'[m].pc)
    /\ UNCHANGED <<_current_thread_id, memory, now, subVars, toolVars>>

BotNext ==
    \E m \in Requests :
        \/ \E is_self \in BOOLEAN, author \in AuthorIds, addressed \in BOOLEAN,
              ts \in Timestamps : OnMessage(m, is_self, author, addressed, ts)
        \/ Resume(m)
        \/ OnLoop(m, AskSetThreadId(m))
        \/ \E s \in Specialists : OnLoop(m, SupervisorDelegates(m, s))
        \/ OnLoop(m, WrapperTool(m))
        \/ OnLoop(m, SpecialistInvoke(m))
        \/ OnLoop(m, SupervisorAnswers(m))
        \/ Reply(m)

SpecBot == Init /\ [][BotNext]_vars

----------------------------------------------------------------------------
(* src/engine/tools.py: datetime.strptime(start_time, "%Y-%m-%dT%H:%M:%S"),
   computed as CPython does: the format's regular expression
     (\d\d\d\d)-(1[0-2]|0[1-9]|[1-9])-(3[0-1]|[1-2]\d|0[1-9]|[1-9]| [1-9])
     T(2[0-3]|[0-1]\d|\d):([0-5]\d|\d):(6[0-1]|[0-5]\d|\d)
   matched (ignoring case) at the start of the string, ValueError when it
   does not match, when data remains, or when the values are out of range. *)

Ch(s, i) == IF i >= 1 /\ i <= Len(s) THEN s[i] ELSE ""
DigitIn(c, lo, hi) == IsDigit(c) /\ DigitVal(c) >= lo /\ DigitVal(c) <= hi

(* the number of characters the directive's alternatives match at s[i]; 0: none *)
FieldLen(kind, s, i) ==
    LET a == Ch(s, i)
        b == Ch(s, i + 1)
    IN  CASE kind = "Y" ->
                 IF \A k \in 0..3 : IsDigit(Ch(s, i + k)) THEN 4 ELSE 0
          [] kind = "m" ->
                 IF (a = "1" /\ DigitIn(b, 0, 2)) \/ (a = "0" /\ DigitIn(b, 1, 9)) THEN 2
                 ELSE IF DigitIn(a, 1, 9) THEN 1 ELSE 0
          [] kind = "d" ->
                 IF \/ (a = "3" /\ DigitIn(b, 0, 1))
                    \/ (DigitIn(a, 1, 2) /\ IsDigit(b))
                    \/ (a = "0" /\ DigitIn(b, 1, 9)) THEN 2
                 ELSE IF DigitIn(a, 1, 9) THEN 1
                 ELSE IF a = " " /\ DigitIn(b, 1, 9) THEN 2 ELSE 0
          [] kind = "H" ->
                 IF (a = "2" /\ DigitIn(b, 0, 3)) \/ (DigitIn(a, 0, 1) /\ IsDigit(b)) THEN 2
                 ELSE IF IsDigit(a) THEN 1 ELSE 0
          [] kind = "M" ->
                 IF DigitIn(a, 0, 5) /\ IsDigit(b) THEN 2
                 ELSE IF IsDigit(a) THEN 1 ELSE 0
          [] kind = "S" ->
                 IF (a = "6" /\ DigitIn(b, 0, 1)) \/ (DigitIn(a, 0, 5) /\ IsDigit(b)) THEN 2
                 ELSE IF IsDigit(a) THEN 1 ELSE 0

(* int() of the n characters matched at s[i] *)
RECURSIVE FieldVal(_, _, _)
FieldVal(s, i, n) ==
    IF n = 0 THEN 0
    ELSE 10 * FieldVal(s, i, n - 1)
            + (IF IsDigit(s[i + n - 1]) THEN DigitVal(s[i + n - 1]) ELSE 0)

IsLeap(y) == (y % 4 = 0 /\ y % 100 # 0) \/ y % 400 = 0
DaysInMonth(y, m) ==
    IF m = 2 THEN (IF IsLeap(y) THEN 29 ELSE 28)
    ELSE IF m \in {4, 6, 9, 11} THEN 30 ELSE 31

(* "%Y-%m-%dT%H:%M:%S": directives and literal characters *)
Format == <<"Y", "-", "m", "-", "d", "T", "H", ":", "M", ":", "S">>
Directives == {"Y", "m", "d", "H", "M", "S"}

NoTime == [ok |-> FALSE]

(* the format matched from its k-th item on against s from s[i] on; vals: the
   values of the directives matched so far *)
RECURSIVE Scan(_, _, _, _)
ScanField(s, i, k, vals, n) ==
    IF n = 0 THEN NoTime ELSE Scan(s, i + n, k + 1, Append(vals, FieldVal(s, i, n)))

Scan(s, i, k, vals) ==
    IF k > Len(Format) THEN [ok |-> TRUE, last |-> i - 1, vals |-> vals]
    ELSE IF Format[k] \in Directives THEN ScanField(s, i, k, vals, FieldLen(Format[k], s, i))
    ELSE IF UpperChar(Ch(s, i)) = Format[k] THEN Scan(s, i + 1, k + 1, vals)
    ELSE NoTime

(* what strptime makes of a match: ValueError when data remains or a value is
   out of datetime's range *)
Converted(found, len) ==
    IF /\ found.ok
       /\ found.last = len
       /\ found.vals[1] >= 1
       /\ found.vals[3] <= DaysInMonth(found.vals[1], found.vals[2])
       /\ found.vals[6] <= 59
    THEN [ok |-> TRUE, y |-> found.vals[1], m |-> found.vals[2], d |-> found.vals[3],
          H |-> found.vals[4], M |-> found.vals[5], S |-> found.vals[6]]
    ELSE NoTime

strptime(s) == Converted(Scan(s, 1, 1, <<>>), Len(s))

(* start_obj + datetime.timedelta(hours=1); OverflowError past year 9999 *)
PlusOneHour(t) ==
    IF t.H < 23 THEN [t EXCEPT !.H = @ + 1]
    ELSE IF t.d < DaysInMonth(t.y, t.m) THEN [t EXCEPT !.H = 0, !.d = @ + 1]
    ELSE IF t.m < 12 THEN [t EXCEPT !.H = 0, !.d = 1, !.m = @ + 1]
    ELSE IF t.y < 9999 THEN [t EXCEPT !.H = 0, !.d = 1, !.m = 1, !.y = @ + 1]
    ELSE NoTime

Pad(n, width) ==
    LET digits == NatToStr(n)
    IN  [i \in 1..(width - Len(digits)) |-> "0"] \o digits

(* .strftime("%Y-%m-%dT%H:%M:%S") *)
strftime(t) ==
    Pad(t.y, 4) \o <<"-">> \o Pad(t.m, 2) \o <<"-">> \o Pad(t.d, 2) \o <<"T">>
        \o Pad(t.H, 2) \o <<":">> \o Pad(t.M, 2) \o <<":">> \o Pad(t.S, 2)

----------------------------------------------------------------------------
(* src/engine/tools.py: add_to_calendar *)

TIMEZONE == <<"America/New_York">>

Str_TBD     == <<"T", "B", "D">>
Str_NONE    == <<"N", "O", "N", "E">>
Str_UNKNOWN == <<"U", "N", "K", "N", "O", "W", "N">>
Str_NA      == <<"N", "/", "A">>

ExamKeywords ==
    {<<"e", "x", "a", "m">>, <<"m", "i", "d", "t", "e", "r", "m">>, <<"q", "u", "i", "z">>}

(* color_id = "8" if any(kw in title.lower() for kw in [...]) else None *)
ColorId(title) ==
    IF \E kw \in ExamKeywords : Contains(Lower(title), kw) THEN <<"8">> ELSE None

(* is_timed: time_str and time_str.strip() and
   time_str.upper() not in ["TBD", "NONE", "UNKNOWN", "N/A"] *)
IsTimed(time_str) ==
    /\ time_str # <<>>
    /\ Strip(time_str) # <<>>
    /\ Upper(time_str) \notin {Str_TBD, Str_NONE, Str_UNKNOWN, Str_NA}

(* the timed branch: v if v and v.upper() not in ["TBD", "NONE", "UNKNOWN"] else None *)
TimedField(v) ==
    IF v # <<>> /\ Upper(v) \notin {Str_TBD, Str_NONE, Str_UNKNOWN} THEN v ELSE None

(* the all-day branch: v if v and v.strip() and v.upper() not in [...] else None *)
AllDayField(v) ==
    IF v # <<>> /\ Strip(v) # <<>> /\ Upper(v) \notin {Str_TBD, Str_NONE, Str_UNKNOWN}
    THEN v ELSE None

(* start_time = f"{date_str}T{time_str}:00" *)
StartTime(date_str, time_str) == date_str \o <<"T">> \o time_str \o <<":", "0", "0">>

TimedEvent(title, start_time, end_time, location, description) ==
    [summary |-> title,
     location |-> TimedField(location),
     description |-> TimedField(description),
     colorId |-> ColorId(title),
     start |-> [date |-> None, dateTime |-> start_time, timeZone |-> TIMEZONE],
     end |-> [date |-> None, dateTime |-> end_time, timeZone |-> TIMEZONE]]

AllDayEvent(title, date_str, location, description) ==
    [summary |-> title,
     location |-> AllDayField(location),
     description |-> AllDayField(description),
     colorId |-> ColorId(title),
     start |-> [date |-> date_str, dateTime |-> None, timeZone |-> None],
     end |-> [date |-> date_str, dateTime |-> None, timeZone |-> None]]

(* lines 89-100, once strptime has returned start_obj: the OverflowError of
   the end time is no ValueError and leaves the tool *)
TimedBody(title, start_time, end_obj, location, description) ==
    IF end_obj.ok
    THEN [raised |-> FALSE,
          event |-> TimedEvent(title, start_time, strftime(end_obj), location, description)]
    ELSE [raised |-> TRUE]

(* lines 87-117, given the result of strptime *)
BodyFrom(title, date_str, time_str, location, description, start_obj) ==
    IF IsTimed(time_str) /\ start_obj.ok
    THEN TimedBody(title, StartTime(date_str, time_str), PlusOneHour(start_obj),
                   location, description)
    ELSE [raised |-> FALSE,
          event |-> AllDayEvent(title, date_str, location, description)]

(* lines 85-117: the event body add_to_calendar builds *)
EventBody(title, date_str, time_str, location, description) ==
    BodyFrom(title, date_str, time_str, location, description,
             strptime(StartTime(date_str, time_str)))

ErrorText == <<"HttpError">>      \* str(e) of the service's exception

(* f"Successfully added '{title}' for {date_str} (Room: {description or 'N/A'})." *)
AddedMessage(title, date_str, description) ==
    <<"Successfully added '">> \o title \o <<"' for ">> \o date_str \o <<" (Room: ">>
        \o (IF description # <<>> THEN description ELSE Str_NA) \o <<").">>

AddErrorMessage == <<"Error adding event: ">> \o ErrorText

----------------------------------------------------------------------------
(* The calendar service, as tools.py uses it: events are kept with the start
   and end they were sent with, read in the event's time zone; events().list
   returns the events that end after timeMin, start before timeMax and match
   the text query. *)

UTC == <<"UTC">>

SecondsPerDay == 24 * 3600

LeapsThrough(y) == (y \div 4) - (y \div 100) + (y \div 400)

RECURSIVE DaysBeforeMonth(_, _)
DaysBeforeMonth(y, m) ==
    IF m = 1 THEN 0 ELSE DaysBeforeMonth(y, m - 1) + DaysInMonth(y, m - 1)

(* days from 2025-01-01, a Wednesday *)
DayNumber(y, m, d) ==
    (y - 2025) * 365 + (LeapsThrough(y - 1) - LeapsThrough(2024))
        + DaysBeforeMonth(y, m) + (d - 1)

IsSunday(y, m, d) == (DayNumber(y, m, d) + 3) % 7 = 0

(* America/New_York: daylight time from the second Sunday of March to the
   first Sunday of November *)
IsDST(y, m, d) ==
    \/ m > 3 /\ m < 11
    \/ m = 3 /\ \E k \in 8..14 : k <= d /\ IsSunday(y, 3, k)
    \/ m = 11 /\ \E k \in 1..7 : d < k /\ IsSunday(y, 11, k)

UtcOffsetSeconds(t) == IF IsDST(t.y, t.m, t.d) THEN 4 * 3600 ELSE 5 * 3600

(* the instant, in seconds of UTC, of a wall-clock time of the given zone *)
Instant(t, zone) ==
    DayNumber(t.y, t.m, t.d) * SecondsPerDay + t.H * 3600 + t.M * 60 + t.S
        + (IF zone = TIMEZONE THEN UtcOffsetSeconds(t) ELSE 0)

Midnight == <<"0", "0", ":", "0", "0">>

(* the wall-clock start of an event: its dateTime, or 00:00 of its date *)
LocalStart(when) ==
    IF when.dateTime # None THEN strptime(when.dateTime)
    ELSE strptime(StartTime(when.date, Midnight))

(* the service takes an event only when it can place it in time *)
ServiceAccepts(event) == LocalStart(event.start).ok /\ LocalStart(event.end).ok

(* the event as the calendar service keeps it: its id, its title, and its
   start and end as wall-clock times of the calendar's zone *)
StoredEvent(id, event) ==
    [id |-> id, summary |-> event.summary, timed |-> event.start.dateTime # None,
     from |-> LocalStart(event.start), to |-> LocalStart(event.end)]

StartInstant(e) == Instant(e.from, TIMEZONE)
EndInstant(e) ==
    IF e.timed THEN Instant(e.to, TIMEZONE)
    ELSE Instant(e.to, TIMEZONE) + SecondsPerDay

(* an RFC 3339 time with the "Z" suffix: a wall-clock time of UTC *)
ParseZulu(s) ==
    IF Len(s) > 0 /\ s[Len(s)] = "Z" THEN strptime(SubSeq(s, 1, Len(s) - 1))
    ELSE NoTime

QueryMatches(lowered, e) == Contains(Lower(e.summary), lowered)

(* the events that end after lower, start before upper and match the text *)
EventsBetween(lower, upper, lowered) ==
    {e \in calendar :
        EndInstant(e) > lower /\ StartInstant(e) < upper /\ QueryMatches(lowered, e)}

(* events().list(calendarId, timeMin, timeMax, q).execute().get('items', []) *)
EventsList(timeMin, timeMax, q) ==
    EventsBetween(Instant(ParseZulu(timeMin), UTC), Instant(ParseZulu(timeMax), UTC),
                  Lower(q))

(* lines 119-130: the call as it ends, for the body built (raised: an
   exception left the tool; external_failed: the service's call raised) *)
AddCall(args, built, insert_ok) ==
    IF built.raised
    THEN [tool |-> "add_to_calendar", args |-> args, raised |-> TRUE,
          external_failed |-> FALSE, body |-> None, ret |-> None]
    ELSE IF insert_ok
    THEN [tool |-> "add_to_calendar", args |-> args, raised |-> FALSE,
          external_failed |-> FALSE, body |-> built.event,
          ret |-> AddedMessage(args.title, args.date_str, args.description)]
    ELSE [tool |-> "add_to_calendar", args |-> args, raised |-> FALSE,
          external_failed |-> TRUE, body |-> built.event, ret |-> AddErrorMessage]

(* add_to_calendar(title, date_str, time_str, location, description);
   insert_ok: whether events().insert(...).execute() succeeds, which it can
   only where the call reaches it with an event the service can place *)
AddToCalendar(title, date_str, time_str, location, description, insert_ok) ==
    /\ insert_ok => next_id <= MaxEvents
    /\ call' = AddCall([title |-> title, date_str |-> date_str, time_str |-> time_str,
                        location |-> location, description |-> description],
                       EventBody(title, date_str, time_str, location, description),
                       insert_ok)
    /\ insert_ok => (~call'.raised /\ ServiceAccepts(call'.body))
    /\ IF insert_ok
       THEN /\ calendar' = calendar \cup {StoredEvent(next_id, call'.body)}
            /\ next_id' = next_id + 1
       ELSE UNCHANGED <<calendar, next_id>>
    /\ UNCHANGED <<agentVars, subVars>>

----------------------------------------------------------------------------
(* src/engine/tools.py: delete_event *)

(* t_min, t_max = f"{date_str}T00:00:00Z", f"{date_str}T23:59:59Z" *)
TMin(date_str) == date_str \o <<"T", "0", "0", ":", "0", "0", ":", "0", "0", "Z">>
TMax(date_str) == date_str \o <<"T", "2", "3", ":", "5", "9", ":", "5", "9", "Z">>

NoEventsMessage(event_title, date_str) ==
    <<"No events found matching '">> \o event_title \o <<"' on ">> \o date_str \o <<".">>

RemovedMessage(n, event_title, date_str) ==
    <<"Removed ">> \o IntToStr(n) \o <<" event(s) matching '">> \o event_title
        \o <<"' from ">> \o date_str \o <<".">>

DeleteErrorMessage == <<"Error deleting event: ">> \o ErrorText

(* the orders in which the service may return a set of events *)
Orderings(S) ==
    {f \in [1..Cardinality(S) -> S] : \A i, j \in 1..Cardinality(S) : f[i] = f[j] => i = j}

(* a plausible slip: the loop leaves after its first delete *)
DeletedByLoopFirstOnly(events, fail_at) ==
    {events[i] : i \in 1..(IF fail_at = 1 \/ Len(events) = 0 THEN 0 ELSE 1)}

(* lines 159-161: the events the loop has deleted when it ends; fail_at = 0:
   every delete succeeds, fail_at = k: the k-th delete raises *)
DeletedByLoop(events, fail_at) ==
    {events[i] : i \in 1..(IF fail_at = 0 THEN Len(events) ELSE fail_at - 1)}

(* delete_event(event_title, date_str); list_ok: whether the listing succeeds;
   fail_at = 0: every delete succeeds, fail_at = k: the k-th delete raises.
   The service returns the matching events in an order of its own. *)
DeleteEvent(event_title, date_str, list_ok, fail_at) ==
    LET args == [event_title |-> event_title, date_str |-> date_str]
    IN  /\ list_ok => ParseZulu(TMin(date_str)).ok
        /\ IF ~list_ok
           THEN /\ fail_at = 0
                /\ call' = [tool |-> "delete_event", args |-> args, raised |-> FALSE,
                            external_failed |-> TRUE, list_ok |-> FALSE, events |-> <<>>,
                            fail_at |-> 0, before |-> calendar, ret |-> DeleteErrorMessage]
                /\ UNCHANGED calendar
           ELSE \E events \in Orderings(EventsList(TMin(date_str), TMax(date_str), event_title)) :
                /\ fail_at <= Len(events)
                /\ calendar' = calendar \ DeletedByLoop(events, fail_at)
                /\ call' = [tool |-> "delete_event", args |-> args, raised |-> FALSE,
                            external_failed |-> (fail_at > 0), list_ok |-> TRUE,
                            events |-> events, fail_at |-> fail_at, before |-> calendar,
                            ret |-> IF events = <<>>
                                    THEN NoEventsMessage(event_title, date_str)
                                    ELSE IF fail_at = 0
                                    THEN RemovedMessage(Len(events), event_title, date_str)
                                    ELSE DeleteErrorMessage]
        /\ UNCHANGED <<next_id, agentVars, subVars>>

----------------------------------------------------------------------------
(* src/engine/tools.py: search_syllabi *)

TopK == 3
Chunks == {<<"chunk">>}

RECURSIVE Join(_, _)
Join(sep, parts) ==
    IF parts = <<>> THEN <<>>
    ELSE IF Len(parts) = 1 THEN parts[1]
    ELSE parts[1] \o sep \o Join(sep, Tail(parts))

(* search_syllabi(query); search_ok: whether vector_db.similarity_search
   returns; docs: the at most k = 3 documents it returns.  The function has
   no try/except: the search's exception leaves it. *)
SearchSyllabi(query, search_ok, docs) ==
    /\ Len(docs) <= TopK
    /\ call' = IF search_ok
               THEN [tool |-> "search_syllabi", args |-> [query |-> query],
                     raised |-> FALSE, external_failed |-> FALSE,
                     ret |-> Join(<<"\n\n">>, docs)]
               ELSE [tool |-> "search_syllabi", args |-> [query |-> query],
                     raised |-> TRUE, external_failed |-> TRUE, ret |-> None]
    /\ UNCHANGED <<calendar, next_id, agentVars, subVars>>

(* src/engine/agent.py: a wrapper tool called as the tool function it is;
   invoke_ok: whether the specialist's model loop returns.  The wrapper has no
   try/except: the invocation's exception leaves it. *)
WrapperAssistant(s, invoke_ok) ==
    LET sub_thread_id == SubThreadId(_current_thread_id, s)
    IN  /\ memory' = memory \cup {Checkpoint(sub_thread_id, s)}
        /\ call' = IF invoke_ok
                   THEN [tool |-> s, args |-> [sub_thread_id |-> sub_thread_id],
                         raised |-> FALSE, external_failed |-> FALSE,
                         ret |-> <<"reply">>]
                   ELSE [tool |-> s, args |-> [sub_thread_id |-> sub_thread_id],
                         raised |-> TRUE, external_failed |-> TRUE, ret |-> None]
        /\ UNCHANGED <<_current_thread_id, req, running, now, calendar, next_id, subVars>>

----------------------------------------------------------------------------
(* The tools called with the arguments a model can pass *)

Title_Exam == <<"E", "x", "a", "m">>
Title_HW   == <<"H", "W">>
Titles == {Title_Exam, Title_HW}

Date_Feb3  == <<"2", "0", "2", "5", "-", "0", "2", "-", "0", "3">>
Date_Feb4  == <<"2", "0", "2", "5", "-", "0", "2", "-", "0", "4">>
Date_Feb30 == <<"2", "0", "2", "5", "-", "0", "2", "-", "3", "0">>
Date_Last  == <<"9", "9", "9", "9", "-", "1", "2", "-", "3", "1">>

ToolDates == {Date_Feb4, Date_Feb30, Date_Last}
ToolTimes ==
    {<<>>, <<" ">>, <<"T", "B", "D">>, <<"n", "/", "a">>,
     <<"1", "4", ":", "0", "0">>, <<"9", ":", "3", "0">>,
     <<"2", "5", ":", "0", "0">>, <<"2", "3", ":", "3", "0">>}
ToolLocations == {<<>>, <<"N", "/", "A">>, <<"t", "b", "d">>, <<"H", "a", "l", "l">>}
ToolDescriptions == {<<>>, <<"T", "B", "D">>, <<"N", "/", "A">>, <<"2", "0", "1">>}

DocLists == UNION {[1..n -> Chunks] : n \in 0..TopK}

Time_1400 == <<"1", "4", ":", "0", "0">>
Time_2330 == <<"2", "3", ":", "3", "0">>

(* the argument lists tried: every time on one date, the impossible and the
   last date, and every location and description with a timed and an untimed
   call *)
AddCalls ==
    [title : {Title_Exam}, date_str : {Date_Feb4}, time_str : ToolTimes,
     location : {<<>>}, description : {<<>>}]
    \cup [title : {Title_Exam}, date_str : {Date_Feb30, Date_Last},
          time_str : {Time_2330}, location : {<<>>}, description : {<<>>}]
    \cup [title : {Title_HW}, date_str : {Date_Feb4}, time_str : {<<>>, Time_1400},
          location : ToolLocations, description : {<<>>}]
    \cup [title : {Title_Exam}, date_str : {Date_Feb4}, time_str : {<<>>, Time_1400},
          location : {<<>>}, description : ToolDescriptions]

ToolsNext ==
    \/ \E a \in AddCalls, insert_ok \in BOOLEAN :
          AddToCalendar(a.title, a.date_str, a.time_str, a.location, a.description,
                        insert_ok)
    \/ \E search_ok \in BOOLEAN, docs \in DocLists :
          SearchSyllabi(<<"q">>, search_ok, docs)
    \/ \E s \in Specialists, invoke_ok \in BOOLEAN : WrapperAssistant(s, invoke_ok)

SpecTools == Init /\ [][ToolsNext]_vars

CalDates == {Date_Feb3, Date_Feb4}
CalTimes == {<<>>, <<"2", "0", ":", "0", "0">>}

CalNext ==
    \/ \E title \in Titles, date_str \in CalDates, time_str \in CalTimes,
          insert_ok \in BOOLEAN :
          AddToCalendar(title, date_str, time_str, <<>>, <<>>, insert_ok)
    \/ \E event_title \in Titles, date_str \in CalDates, list_ok \in BOOLEAN,
          fail_at \in 0..MaxEvents :
          DeleteEvent(event_title, date_str, list_ok, fail_at)

SpecCal == Init /\ [][CalNext]_vars

----------------------------------------------------------------------------
(* The sub-thread id as a function of (current thread value, specialist) *)

ParentIds ==
    {None, <<>>, <<"a">>, ThreadIdOf(1, 0), ThreadIdOf(11, 0),
     SubThreadId(ThreadIdOf(1, 0), "calendar")}

SubInputs ==
    /\ sub_in \in [t1 : ParentIds, s1 : Specialists, t2 : ParentIds, s2 : Specialists]
    /\ sub_out = None

(* the wrappers' first line, for the two inputs *)
ComputeSubThreadIds ==
    /\ sub_out = None
    /\ sub_out' = <<SubThreadId(sub_in.t1, sub_in.s1), SubThreadId(sub_in.t2, sub_in.s2)>>
    /\ UNCHANGED <<sub_in, agentVars, toolVars>>

SubNext == ComputeSubThreadIds

SubInit == AgentInit /\ SubInputs /\ ToolIdle

SpecSub == SubInit /\ [][SubNext]_vars

----------------------------------------------------------------------------
(* Claims about the thread ids *)

(* C1: with ask_sentinel calls in flight concurrently, the specialist invoked
   for a request runs under the sub-thread id derived from the thread id of
   some request that has called set_thread_id, which need not be its own:
   C1_Witness is the state in which request a's wrapper has read the value
   request b wrote over a's. *)
C1_SubThreadFromSomeSetter ==
    \A r \in Requests :
        req[r].pc = "specialist" =>
            \E q \in Requests :
                /\ req[q].pc \notin {"new", "ask"}
                /\ req[r].sub = SubThreadId(req[q].thread_id, req[r].tool)

C1_Witness ==
    \E a, b \in Requests :
        /\ a # b
        /\ req[a].thread_id # req[b].thread_id
        /\ req[a].pc = "specialist"
        /\ InAskSentinel(b)
        /\ _current_thread_id = req[b].thread_id
        /\ req[a].sub = SubThreadId(req[b].thread_id, req[a].tool)
        /\ req[a].sub # SubThreadId(req[a].thread_id, req[a].tool)

(* C2: the sub-thread id is collision-free over every current thread value,
   the unset and the empty value included: equal sub-thread ids only for
   equal (thread value, specialist) pairs. *)
C2_CollisionFree ==
    (sub_out # None /\ sub_out[1] = sub_out[2]) =>
        (sub_in.t1 = sub_in.t2 /\ sub_in.s1 = sub_in.s2)

(* C3: after sequential ask_sentinel calls with adapter-form thread ids, no
   key of the shared memory store holds the history of two different agents:
   a sub-thread key is never a parent's key nor a sibling's. *)
C3_KeysNotShared ==
    \A c1, c2 \in memory : c1.key = c2.key => c1.agent = c2.agent

C3_Witness ==
    \E p, c1, c2 \in memory :
        /\ p.agent = "supervisor"
        /\ c1.agent \in Specialists /\ c2.agent \in Specialists
        /\ c1.agent # c2.agent
        /\ c1.key = SubThreadId(p.key, c1.agent)
        /\ c2.key = SubThreadId(p.key, c2.agent)

SameBucket(ts1, ts2) ==
    \E k \in 0..(MaxBucket + 1) :
        /\ k * BucketSeconds <= ts1 /\ ts1 < (k + 1) * BucketSeconds
        /\ k * BucketSeconds <= ts2 /\ ts2 < (k + 1) * BucketSeconds

(* C8: two messages get the same thread id exactly when they have the same
   author id and their timestamps lie in the same 1800-second bucket. *)
C8_ThreadIdInjective ==
    \A m1, m2 \in Requests :
        (req[m1].thread_id # None /\ req[m2].thread_id # None) =>
            (req[m1].thread_id = req[m2].thread_id
                <=> (req[m1].author = req[m2].author /\ SameBucket(req[m1].ts, req[m2].ts)))

C8_Witness ==
    \E m1, m2 \in Requests :
        /\ req[m1].thread_id # None /\ req[m2].thread_id # None
        /\ req[m1].author = req[m2].author
        /\ req[m1].ts = BucketSeconds - 1
        /\ req[m2].ts = BucketSeconds
        /\ req[m1].thread_id # req[m2].thread_id

(* C10: through on_message at most one ask_sentinel call is in progress at a
   time, and every wrapper reads the thread id its own request set. *)
C10_DispatchSerialized ==
    /\ Cardinality({m \in Requests : InAskSentinel(m)}) <= 1
    /\ \A m \in Requests :
          req[m].pc = "specialist" =>
              req[m].sub = SubThreadId(req[m].thread_id, req[m].tool)

C10_Witness ==
    \E a, b \in Requests :
        /\ req[a].pc = "specialist"
        /\ req[b].pc = "typing"
        /\ req[a].thread_id # req[b].thread_id
        /\ req[a].sub = SubThreadId(req[a].thread_id, req[a].tool)

----------------------------------------------------------------------------
(* The placeholder strings of the tool description, and the argument with a
   placeholder replaced by the empty string *)
Placeholders == {<<>>, Str_TBD, Str_NONE, Str_UNKNOWN, Str_NA}
Normalized(v) == IF Upper(v) \in Placeholders THEN <<>> ELSE v

(* C4: a call of add_to_calendar whose time_str, location or description is a
   placeholder ("", "TBD", "NONE", "UNKNOWN", "N/A", in any case) sends the
   same event body and returns the same string as the call with the empty
   string in its place. *)
C4_PlaceholdersAsEmpty ==
    (call.tool = "add_to_calendar" /\ ~call.raised) =>
        /\ call.body = EventBody(call.args.title, call.args.date_str,
                                 Normalized(call.args.time_str),
                                 Normalized(call.args.location),
                                 Normalized(call.args.description)).event
        /\ call.ret = IF call.external_failed THEN AddErrorMessage
                      ELSE AddedMessage(call.args.title, call.args.date_str,
                                        Normalized(call.args.description))

(* HH:MM: a two-digit hour from 00 to 23, a colon, a two-digit minute *)
IsHHMM(s) ==
    /\ Len(s) = 5
    /\ IsDigit(s[1]) /\ IsDigit(s[2]) /\ s[3] = ":" /\ IsDigit(s[4]) /\ IsDigit(s[5])
    /\ 10 * DigitVal(s[1]) + DigitVal(s[2]) <= 23
    /\ DigitVal(s[4]) <= 5

(* C5: for a time_str that is not of the form HH:MM, add_to_calendar sends an
   all-day event (start and end carry 'date' and no 'dateTime') and returns a
   string; no exception leaves the tool. *)
C5_NonHHMMIsAllDay ==
    (call.tool = "add_to_calendar" /\ ~IsHHMM(call.args.time_str)) =>
        /\ ~call.raised
        /\ call.ret # None
        /\ call.body.start.dateTime = None /\ call.body.start.date = call.args.date_str
        /\ call.body.end.dateTime = None /\ call.body.end.date = call.args.date_str

(* the events the listing of the last delete_event returned, and the events
   that call removed from the calendar *)
Listed == {call.events[i] : i \in 1..Len(call.events)}
Deleted == call.before \ calendar

(* C6 as stated: when the listing returns no event, delete_event deletes
   nothing and returns the "No events found" message; when it returns N >= 1
   events it deletes exactly those N and returns the message reporting N,
   whatever the outcome of the delete requests. *)
C6_Original ==
    (call.tool = "delete_event" /\ call.list_ok) =>
        IF call.events = <<>>
        THEN Deleted = {}
             /\ call.ret = NoEventsMessage(call.args.event_title, call.args.date_str)
        ELSE Deleted = Listed
             /\ call.ret = RemovedMessage(Len(call.events), call.args.event_title,
                                          call.args.date_str)

(* C6, amended: when the listing returns no event, delete_event deletes
   nothing and returns the "No events found" message; when it returns N >= 1
   events and every delete request succeeds, it deletes exactly those N and
   returns the message reporting N; when the k-th delete request fails, it
   returns the "Error deleting event" string, which reports no count, and
   exactly the first k - 1 listed events are deleted. *)
C6_Amended ==
    (call.tool = "delete_event" /\ call.list_ok) =>
        /\ call.events = <<>> =>
              /\ Deleted = {}
              /\ call.ret = NoEventsMessage(call.args.event_title, call.args.date_str)
        /\ (call.events # <<>> /\ call.fail_at = 0) =>
              /\ Deleted = Listed
              /\ Cardinality(Deleted) = Len(call.events)
              /\ call.ret = RemovedMessage(Len(call.events), call.args.event_title,
                                           call.args.date_str)
        /\ call.fail_at > 0 =>
              /\ Deleted = {call.events[i] : i \in 1..(call.fail_at - 1)}
              /\ Cardinality(Deleted) = call.fail_at - 1
              /\ call.ret = DeleteErrorMessage

C6_Witness ==
    /\ call.tool = "delete_event"
    /\ call.list_ok
    /\ Len(call.events) = 2
    /\ call.fail_at = 0
    /\ Cardinality(Deleted) = 2
    /\ call.ret = RemovedMessage(2, call.args.event_title, call.args.date_str)

(* C7: when the external call inside a tool raises (calendar insert, list or
   delete, similarity search, model invocation), the tool returns a string and
   no exception leaves it. *)
C7_NoExceptionEscapes ==
    (call.tool # "none" /\ call.external_failed) => (~call.raised /\ call.ret # None)

(* the event starts on the day date_str of the calendar's zone *)
StartsOnLocalDay(e, date_str) ==
    /\ e.from.y = FieldVal(date_str, 1, 4)
    /\ e.from.m = FieldVal(date_str, 6, 2)
    /\ e.from.d = FieldVal(date_str, 9, 2)

(* C9: the listing window of delete_event(title, D) is the day D of
   America/New_York: a timed event of that title that add_to_calendar wrote
   is listed exactly when it starts on the local day D. *)
C9_FullLocalDay ==
    (call.tool = "delete_event" /\ call.list_ok) =>
        \A e \in call.before :
            (e.timed /\ QueryMatches(Lower(call.args.event_title), e)) =>
                (e \in Listed <=> StartsOnLocalDay(e, call.args.date_str))

====
